---- MODULE Spec2Model ----
(***************************************************************************)
(* Model of the FileMaker Data API client of src/src/client.ts (DataApi):  *)
(* the token cache (getToken), the request dispatcher (request), the       *)
(* operation layer (list, create, get, update, delete, metadata, find,     *)
(* findOne, findFirst) and session teardown (disconnect).                  *)
(*                                                                         *)
(* Two callers run operations concurrently.  An async function runs        *)
(* without interruption up to its next await, so one action is the code    *)
(* between two awaits; the continuations of other callers may run at every *)
(* await.  The server is the environment: it answers each call with any    *)
(* response and may invalidate a session.                                  *)
(***************************************************************************)
EXTENDS Integers, Sequences, FiniteSets, TLC

\* ------------------------------------------------------------------ bounds
MaxTokens == 2      \* session tokens the server hands out over a run
MaxRecords == 2     \* records in a find response

\* ------------------------------------------------------------------ values
Procs == {"p1", "p2"}                    \* concurrent callers

Null == "null"                           \* JS null (token cell, missing header)
Empty == ""                              \* the empty string
Undefined == "undefined"                 \* JS undefined / an absent argument
ApiKeyValue == "otto-key"                \* options.auth.apiKey
TokenNames == <<"t1", "t2", "t3", "t4", "t5", "t6", "t7", "t8">>
AbsentNum == -1                          \* an absent numeric argument

\* !x for the token cell: null and "" are falsy
Falsy(t) == t \in {Null, Empty}

RecIds == 1..MaxRecords
\* the data of a response: records 1..n in the server's order
DataSeqs == {[i \in 1..n |-> i] : n \in 0..MaxRecords}

InvalidTokenCode == "952"                \* FileMaker: invalid Data API token
NoRecordsCode == "401"                   \* FileMaker: no records match the request
ErrorCodes == {NoRecordsCode, "102"}

\* ------------------------------------------------------------------ outcomes
\* What a promise settles to: a value or a thrown error.
\*   kind: "value" | "FileMakerError" | "TypeError" | "ParseError" | "Error"
\*   form (values): "undefined" | "response" | "one" | "token"
\*   form (Error):  "count" | "no-token" | "otto-disconnect"
NoOutcome == [kind |-> "none", code |-> Undefined, form |-> Undefined,
              data |-> <<>>, n |-> 0, tok |-> Null]
Value(form, data, tok) ==
    [kind |-> "value", code |-> Undefined, form |-> form, data |-> data,
     n |-> 0, tok |-> tok]
FileMakerError(code) ==
    [kind |-> "FileMakerError", code |-> code, form |-> Undefined,
     data |-> <<>>, n |-> 0, tok |-> Null]
Thrown(kind, form, n) ==
    [kind |-> kind, code |-> Undefined, form |-> form, data |-> <<>>,
     n |-> n, tok |-> Null]
IsError(o) == o.kind \notin {"none", "value"}

\* ------------------------------------------------------------------ HTTP bodies
\* A response body: parsed = FALSE when res.json() throws; otherwise an object
\* with an optional messages array (each entry's code, Undefined when the
\* entry has none) and an optional response payload {data: [...]}.
Body(parsed, hasMessages, messages, hasResponse, data) ==
    [parsed |-> parsed, hasMessages |-> hasMessages, messages |-> messages,
     hasResponse |-> hasResponse, data |-> data]
Unparseable == Body(FALSE, FALSE, <<>>, FALSE, <<>>)
MessageLists(codes) == {<<>>} \cup {<<c>> : c \in codes \cup {Undefined}}
ErrorBodies(codes) ==
    {Unparseable, Body(TRUE, FALSE, <<>>, FALSE, <<>>)}
      \cup {Body(TRUE, TRUE, m, FALSE, <<>>) : m \in MessageLists(codes)}
OkBodies ==
    {Unparseable, Body(TRUE, FALSE, <<>>, FALSE, <<>>),
     Body(TRUE, TRUE, <<"0">>, FALSE, <<>>)}
      \cup {Body(TRUE, TRUE, <<"0">>, TRUE, d) : d \in DataSeqs}
\* The server rejects a token it does not know.
InvalidTokenResponse ==
    [ok |-> FALSE, body |-> Body(TRUE, TRUE, <<InvalidTokenCode>>, FALSE, <<>>)]
NoResponse == [ok |-> FALSE, body |-> Unparseable]    \* no fetch resolved yet
Responses ==
    {[ok |-> TRUE, body |-> b] : b \in OkBodies}
      \cup {[ok |-> FALSE, body |-> b] : b \in ErrorBodies(ErrorCodes)}

\* respData?.messages?.[0].code ?? "500"  (lines 167, 320); the body here is
\* respData after the catch, so an unparseable body is already {}.
ApiFailure(body) ==
    IF ~body.parsed \/ ~body.hasMessages THEN FileMakerError("500")
    ELSE IF body.messages = <<>> THEN Thrown("TypeError", Undefined, 0)
    ELSE IF body.messages[1] = Undefined THEN FileMakerError("500")
    ELSE FileMakerError(body.messages[1])

ParseFailurePropagates(r) ==
    IF ~r.body.parsed THEN Thrown("ParseError", Undefined, 0)
    ELSE IF ~r.ok THEN ApiFailure(r.body)
    ELSE IF r.body.hasResponse THEN Value("response", r.body.data, Null)
    ELSE Value("undefined", <<>>, Null)
StatusIgnored(r) ==
    IF r.body.parsed /\ r.body.hasResponse
    THEN Value("response", r.body.data, Null)
    ELSE Value("undefined", <<>>, Null)
\* request, lines 158-176: what the dispatcher settles to for response r.
ResponseOutcome(r) ==
    IF ~r.ok THEN ApiFailure(r.body)
    ELSE IF r.body.parsed /\ r.body.hasResponse
         THEN Value("response", r.body.data, Null)
    ELSE Value("undefined", <<>>, Null)

\* ------------------------------------------------------------------ getToken
IsApiKey(opts) == opts.auth = "apiKey"          \* "apiKey" in options.auth

\* Login responses: ok with the X-FM-Data-Access-Token header absent, empty
\* or carrying the new session token; or not ok with any error body.
LoginResponses ==
    {[ok |-> TRUE, header |-> h, body |-> Unparseable] :
        h \in {"absent", "empty", "token"}}
      \cup {[ok |-> FALSE, header |-> "absent", body |-> b] :
              b \in ErrorBodies(ErrorCodes)}

\* res.headers.get("X-FM-Data-Access-Token") for a response whose token,
\* when the header carries one, is `fresh`.
HeaderValue(r, fresh) ==
    CASE r.header = "absent" -> Null
      [] r.header = "empty" -> Empty
      [] OTHER -> fresh

RefreshIgnored(opts, tok, refresh) ==
    IF IsApiKey(opts) THEN [login |-> FALSE, token |-> tok, ret |-> opts.apiKey]
    ELSE IF Falsy(tok) THEN [login |-> TRUE, token |-> tok, ret |-> Null]
    ELSE [login |-> FALSE, token |-> tok, ret |-> tok]
NoApiKeyShortcut(opts, tok, refresh) ==
    LET t == IF refresh THEN Null ELSE tok
    IN  IF Falsy(t) THEN [login |-> TRUE, token |-> t, ret |-> Null]
        ELSE [login |-> FALSE, token |-> t, ret |-> t]
\* getToken, lines 109-113, up to the awaited login fetch: the token cell
\* afterwards, whether a login call is issued, and the token returned when
\* none is.
GetTokenSync(opts, tok, refresh) ==
    IF IsApiKey(opts) THEN [login |-> FALSE, token |-> tok, ret |-> opts.apiKey]
    ELSE LET t == IF refresh THEN Null ELSE tok
         IN  IF Falsy(t) THEN [login |-> TRUE, token |-> t, ret |-> Null]
             ELSE [login |-> FALSE, token |-> t, ret |-> t]

HeaderUnchecked(r, fresh) ==
    IF ~r.ok
    THEN [assign |-> FALSE, token |-> Null,
          out |-> IF ~r.body.parsed THEN Thrown("ParseError", Undefined, 0)
                  ELSE IF ~r.body.hasMessages \/ r.body.messages = <<>>
                       THEN Thrown("TypeError", Undefined, 0)
                  ELSE FileMakerError(r.body.messages[1])]
    ELSE LET h == HeaderValue(r, fresh)
         IN  [assign |-> TRUE, token |-> h, out |-> Value("token", <<>>, h)]
LoginErrorIgnored(r, fresh) ==
    IF ~r.ok
    THEN [assign |-> FALSE, token |-> Null, out |-> Value("token", <<>>, Null)]
    ELSE LET h == HeaderValue(r, fresh)
         IN  [assign |-> TRUE, token |-> h,
              out |-> IF Falsy(h) THEN Thrown("Error", "no-token", 0)
                      ELSE Value("token", <<>>, h)]
\* getToken, lines 124-135, after the login fetch resolves with r: whether the
\* token cell is assigned, its new value, and what getToken settles to.
GetTokenResume(r, fresh) ==
    IF ~r.ok
    THEN [assign |-> FALSE, token |-> Null,
          out |-> IF ~r.body.parsed THEN Thrown("ParseError", Undefined, 0)
                  ELSE IF ~r.body.hasMessages \/ r.body.messages = <<>>
                       THEN Thrown("TypeError", Undefined, 0)
                  ELSE FileMakerError(r.body.messages[1])]
    ELSE LET h == HeaderValue(r, fresh)
         IN  [assign |-> TRUE, token |-> h,
              out |-> IF Falsy(h) THEN Thrown("Error", "no-token", 0)
                      ELSE Value("token", <<>>, h)]

\* ------------------------------------------------------------------ operation layer
Layouts == {"L1"}                        \* default layouts (options.layout)
ArgLayouts == {"L2"}                     \* layouts passed with a call
NoSort == [tag |-> "absent", v |-> <<>>]
SortString(s) == [tag |-> "string", v |-> <<s>>]
SortArray(v) == [tag |-> "array", v |-> v]
SortValues ==
    {NoSort, SortString("Name"), SortArray(<<"Name">>), SortArray(<<>>)}
\* !!x for a number argument (absent reads as undefined) and for sort
TruthyNum(x) == x # AbsentNum /\ x # 0
TruthySort(s) == s.tag = "array" \/ (s.tag = "string" /\ s.v[1] # Empty)

NoArgs == [layout |-> Undefined, limit |-> AbsentNum, offset |-> AbsentNum,
           sort |-> NoSort, ignoreEmptyResult |-> Undefined]
NoQuery == [limit |-> AbsentNum, offset |-> AbsentNum, sort |-> NoSort,
            _limit |-> AbsentNum, _offset |-> AbsentNum, _sort |-> NoSort]

\* const { layout = options.layout } = args: the string put in the path
\* (a template literal prints undefined as "undefined").
LayoutOf(opts, a) == IF a.layout # Undefined THEN a.layout ELSE opts.layout

\* list, lines 193-200: the params object handed to request as the query.
ListQuery(a) ==
    [limit   |-> IF TruthyNum(a.limit) THEN AbsentNum ELSE a.limit,
     _limit  |-> IF TruthyNum(a.limit) THEN a.limit ELSE AbsentNum,
     offset  |-> IF TruthyNum(a.offset) THEN AbsentNum ELSE a.offset,
     _offset |-> IF TruthyNum(a.offset) THEN a.offset ELSE AbsentNum,
     sort    |-> IF TruthySort(a.sort) THEN NoSort ELSE a.sort,
     _sort   |-> IF TruthySort(a.sort)
                 THEN (IF a.sort.tag = "array" THEN a.sort
                       ELSE SortArray(a.sort.v))
                 ELSE NoSort]

RequestOps == {"list", "create", "get", "update", "delete", "metadata",
               "find", "findOne", "findFirst"}
FindOps == {"find", "findOne", "findFirst"}
PublicOps == RequestOps \cup {"disconnect"}

Method(o) ==
    CASE o \in {"list", "get", "metadata"} -> "GET"
      [] o = "update" -> "PATCH"
      [] o = "delete" -> "DELETE"
      [] OTHER -> "POST"
Path(o) ==
    CASE o \in {"list", "create"} -> "/layouts/{layout}/records"
      [] o \in {"get", "update", "delete"} -> "/layouts/{layout}/records/{recordId}"
      [] o = "metadata" -> "/layouts/{layout}"
      [] OTHER -> "/layouts/{layout}/_find"

NoReq == [method |-> Undefined, path |-> Undefined, layout |-> Undefined,
          key |-> Undefined, query |-> NoQuery, bearer |-> Null]
\* The params each operation hands to request (lines 202-207, 221-224,
\* 238-243, 257-261, 275-280, 290, 353-356); bearer is filled in by request.
LogicalRequest(opts, o, a) ==
    [method |-> Method(o), path |-> Path(o), layout |-> LayoutOf(opts, a),
     key |-> Undefined,
     query |-> IF o = "list" THEN ListQuery(a) ELSE NoQuery, bearer |-> Null]

\* ignoreEmptyResult = false by default (line 349)
IgnoreEmpty(a) == a.ignoreEmptyResult = "true"

SuppressAnyFileMakerError(ignore, e) ==
    IF IsError(e) /\ ignore /\ e.kind = "FileMakerError"
    THEN Value("response", <<>>, Null) ELSE e
\* find, lines 357-361: the catch handler on request's promise.
FindCatch(ignore, e) ==
    IF IsError(e) /\ ignore /\ e.kind = "FileMakerError" /\ e.code = NoRecordsCode
    THEN Value("response", <<>>, Null)
    ELSE e

FirstWithoutCountCheck(res) ==
    IF IsError(res) THEN res
    ELSE IF res.form = "undefined" THEN Thrown("TypeError", Undefined, 0)
    ELSE IF res.data = <<>> THEN Value("one-undefined", <<>>, Null)
    ELSE Value("one", <<res.data[1]>>, Null)
\* findOne, lines 375-378, applied to what find settled to.
FindOneThen(res) ==
    IF IsError(res) THEN res
    ELSE IF res.form = "undefined" THEN Thrown("TypeError", Undefined, 0)
    ELSE IF Len(res.data) # 1 THEN Thrown("Error", "count", Len(res.data))
    ELSE Value("one", <<res.data[1]>>, Null)
\* findFirst, lines 391-392.
FindFirstThen(res) ==
    IF IsError(res) THEN res
    ELSE IF res.form = "undefined" THEN Thrown("TypeError", Undefined, 0)
    ELSE IF res.data = <<>> THEN Value("one-undefined", <<>>, Null)
    ELSE Value("one", <<res.data[1]>>, Null)

\* ------------------------------------------------------------------ state
VARIABLES
    options,    \* the validated construction input: auth mode, key, default layout
    token,      \* the cached token (line 102)
    sessions,   \* server: the session tokens it accepts
    issued,     \* server: how many session tokens it has handed out
    pc,         \* per caller: where its invocation stands (see below)
    op,         \* per caller: the operation it is running
    args,       \* per caller: the arguments it was called with
    login,      \* per caller: the response of its login fetch (res, line 114)
    got,        \* per caller: what its getToken() settled to (lines 148, 300)
    req,        \* per caller: the HTTP call request/disconnect builds
    res,        \* per caller: the response of its fetch (res, lines 149, 303)
    out,        \* per caller: what the dispatcher (request) settled to
    found,      \* per caller: what request(...).catch(...) in find settled to
    result,     \* per caller: what the operation settled to
    nLogin,     \* per caller: login calls this invocation has issued
    nHttp       \* per caller: data/session calls this invocation has issued

\* pc: "idle"      no invocation
\*     "login"     the login fetch of getToken is in flight (line 114)
\*     "loginJson" the login was answered with a failure status; getToken
\*                 awaits res.json() (line 125)
\*     "token"     getToken has settled; request/disconnect is to resume from
\*                 `await getToken()` (lines 148, 300)
\*     "fetch"     the data or session fetch is in flight (lines 149, 303)
\*     "json"      the fetch has resolved; res.json() is awaited (lines 160, 313)
\*     "settled"   request has settled; the operation's `await request(...)`
\*                 or find's catch handler is to run
\*     "caught"    find's catch handler has run; find is to resume from its
\*                 await (line 353)
\*     "found"     find has settled; findOne/findFirst is to resume from
\*                 `await find(args)` (lines 375, 391)
\*     "done"      the operation's promise has settled
vars == <<options, token, sessions, issued, pc, op, args, login, got, req, res,
          out, found, result, nLogin, nHttp>>
server == <<sessions, issued>>

\* Valid construction inputs whose default layout is one of `layouts`.
Configs(layouts) ==
    {[auth |-> "apiKey", apiKey |-> ApiKeyValue, layout |-> l] : l \in layouts}
      \cup {[auth |-> "userpass", apiKey |-> Undefined, layout |-> l] :
               l \in layouts}

\* no login fetch resolved yet
NoLogin == [ok |-> FALSE, header |-> "absent", body |-> Unparseable]

\* DataApi, lines 97-106: the client constructed from input opts.
DataApi(opts) ==
    /\ options = opts
    /\ token = IF IsApiKey(opts) THEN opts.apiKey ELSE Null
    /\ sessions = {}
    /\ issued = 0
    /\ pc = [p \in Procs |-> "idle"]
    /\ op = [p \in Procs |-> Undefined]
    /\ args = [p \in Procs |-> NoArgs]
    /\ login = [p \in Procs |-> NoLogin]
    /\ got = [p \in Procs |-> NoOutcome]
    /\ req = [p \in Procs |-> NoReq]
    /\ res = [p \in Procs |-> NoResponse]
    /\ out = [p \in Procs |-> NoOutcome]
    /\ found = [p \in Procs |-> NoOutcome]
    /\ result = [p \in Procs |-> NoOutcome]
    /\ nLogin = [p \in Procs |-> 0]
    /\ nHttp = [p \in Procs |-> 0]

ArgsFor(o) ==
    CASE o = "list" ->
           {[NoArgs EXCEPT !.layout = l, !.limit = li, !.offset = of, !.sort = so] :
              l \in ArgLayouts \cup {Undefined}, li \in {AbsentNum, 0, 10},
              of \in {AbsentNum, 0, 5}, so \in SortValues}
      [] o \in FindOps ->
           {[NoArgs EXCEPT !.layout = l, !.ignoreEmptyResult = i] :
              l \in ArgLayouts \cup {Undefined}, i \in {Undefined, "false", "true"}}
      [] o = "disconnect" -> {NoArgs}
      [] OTHER ->
           {[NoArgs EXCEPT !.layout = l] : l \in ArgLayouts \cup {Undefined}}

\* disconnect, lines 311-329: what the session DELETE settles to.
DisconnectOutcome(r) ==
    IF ~r.ok THEN ApiFailure(r.body)
    ELSE IF r.body.parsed /\ r.body.hasResponse
         THEN Value("response", r.body.data, Null)
    ELSE Value("undefined", <<>>, Null)

NoDisconnectGuard(opts) == FALSE
\* disconnect, lines 296-297: the synchronous throw under an Otto API key.
DisconnectGuard(opts) == IsApiKey(opts)

\* The DELETE disconnect builds (lines 301-309); the path is keyed by the
\* token (key) and the call authorized with it (bearer), both filled in once
\* getToken has returned.
SessionRequest ==
    [method |-> "DELETE", path |-> "/sessions/{token}", layout |-> Undefined,
     key |-> Undefined, query |-> NoQuery, bearer |-> Null]

\* The server answers a call carrying bearer t with one of `answers`; a
\* session token it does not accept is rejected.
ServerResponses(opts, t, valid, answers) ==
    IF ~IsApiKey(opts) /\ t \notin valid THEN {InvalidTokenResponse}
    ELSE answers

\* getToken settles to g for caller p (returns at line 109 or 135, throws at
\* lines 126-132); request or disconnect resumes from `await getToken()`
\* (lines 148, 300) in a later step.
GetTokenSettles(p, g) ==
    /\ got' = [got EXCEPT ![p] = g]
    /\ pc' = [pc EXCEPT ![p] = "token"]

\* Caller p invokes o(a): the operation shapes request rq and request or
\* disconnect calls getToken() (lines 148, 300; no argument, so refresh is
\* false), which runs (lines 108-113) up to its login fetch or to its return.
Call(p, o, a, rq) ==
    LET g == GetTokenSync(options, token, FALSE)
    IN  /\ pc[p] = "idle"
        /\ op' = [op EXCEPT ![p] = o]
        /\ args' = [args EXCEPT ![p] = a]
        /\ req' = [req EXCEPT ![p] = rq]
        /\ token' = g.token
        /\ IF g.login
           THEN /\ nLogin' = [nLogin EXCEPT ![p] = @ + 1]
                /\ pc' = [pc EXCEPT ![p] = "login"]
                /\ UNCHANGED got
           ELSE /\ GetTokenSettles(p, Value("token", <<>>, g.ret))
                /\ UNCHANGED nLogin
        /\ UNCHANGED <<options, server, login, res, out, found, result, nHttp>>

\* list, create, get, update, delete, metadata, find, findOne, findFirst
\* (lines 182-291, 338-393) up to the first await that yields.
CallOperation(p, ops, argsOf) ==
    \E o \in ops : \E a \in argsOf[o] :
        Call(p, o, a, LogicalRequest(options, o, a))

\* disconnect (lines 295-333) up to the first await that yields.
CallDisconnect(p) ==
    IF DisconnectGuard(options)
    THEN /\ pc[p] = "idle"
         /\ op' = [op EXCEPT ![p] = "disconnect"]
         /\ args' = [args EXCEPT ![p] = NoArgs]
         /\ out' = [out EXCEPT ![p] = NoOutcome]
         /\ result' = [result EXCEPT ![p] = Thrown("Error", "otto-disconnect", 0)]
         /\ pc' = [pc EXCEPT ![p] = "done"]
         /\ UNCHANGED <<options, token, server, login, got, req, res, found,
                        nLogin, nHttp>>
    ELSE Call(p, "disconnect", NoArgs, SessionRequest)

\* The login fetch of caller p resolves (line 114).  On a success status
\* getToken assigns the cell and returns or throws in the same job (lines
\* 131-135); on a failure status it awaits the body (line 125).
LoginResponse(p, answers) ==
    /\ pc[p] = "login"
    /\ \E r \in answers :
         LET fresh == TokenNames[issued + 1]
             g == GetTokenResume(r, fresh)
         IN  /\ r.header = "token" => issued < MaxTokens
             /\ login' = [login EXCEPT ![p] = r]
             /\ IF r.ok /\ r.header = "token"
                THEN /\ issued' = issued + 1
                     /\ sessions' = sessions \cup {fresh}
                ELSE UNCHANGED server
             /\ IF r.ok
                THEN /\ token' = IF g.assign THEN g.token ELSE token
                     /\ GetTokenSettles(p, g.out)
                ELSE /\ pc' = [pc EXCEPT ![p] = "loginJson"]
                     /\ UNCHANGED <<token, got>>
    /\ UNCHANGED <<options, op, args, req, res, out, found, result, nLogin,
                   nHttp>>

\* getToken, lines 125-129: the body of the failed login has been read (or
\* could not be); getToken throws.
LoginFails(p) ==
    /\ pc[p] = "loginJson"
    /\ LET g == GetTokenResume(login[p], Null)
       IN  /\ token' = IF g.assign THEN g.token ELSE token
           /\ GetTokenSettles(p, g.out)
    /\ UNCHANGED <<options, server, op, args, login, req, res, out, found,
                   result, nLogin, nHttp>>

\* request, lines 148-156, and disconnect, lines 300-309: caller p resumes
\* from `await getToken()` with the token and issues its fetch.
IssueFetch(p) ==
    /\ pc[p] = "token"
    /\ ~IsError(got[p])
    /\ req' = [req EXCEPT ![p] =
                 [@ EXCEPT !.bearer = got[p].tok,
                           !.key = IF op[p] = "disconnect" THEN got[p].tok
                                   ELSE @]]
    /\ nHttp' = [nHttp EXCEPT ![p] = @ + 1]
    /\ pc' = [pc EXCEPT ![p] = "fetch"]
    /\ UNCHANGED <<options, token, server, op, args, login, got, res, out,
                   found, result, nLogin>>

\* request, line 148, and disconnect, line 300: caller p resumes from
\* `await getToken()` with getToken's error and rethrows it; request has then
\* settled, and so has disconnect, whose promise is that of its inner function.
Rethrow(p) ==
    /\ pc[p] = "token"
    /\ IsError(got[p])
    /\ out' = [out EXCEPT ![p] = got[p]]
    /\ IF op[p] = "disconnect"
       THEN /\ result' = [result EXCEPT ![p] = got[p]]
            /\ pc' = [pc EXCEPT ![p] = "done"]
       ELSE /\ pc' = [pc EXCEPT ![p] = "settled"]
            /\ UNCHANGED result
    /\ UNCHANGED <<options, token, server, op, args, login, got, req, res,
                   found, nLogin, nHttp>>

\* As RequestResponse, but a call turned down for an invalid token is sent
\* again after getToken(true).
RequestResponseWithRetry(p, answers) ==
    /\ pc[p] = "fetch"
    /\ op[p] \in RequestOps
    /\ \E r \in ServerResponses(options, req[p].bearer, sessions, answers) :
         /\ res' = [res EXCEPT ![p] = r]
         /\ IF ResponseOutcome(r) = FileMakerError(InvalidTokenCode)
            THEN /\ token' = Null
                 /\ nLogin' = [nLogin EXCEPT ![p] = @ + 1]
                 /\ pc' = [pc EXCEPT ![p] = "login"]
            ELSE /\ pc' = [pc EXCEPT ![p] = "json"]
                 /\ UNCHANGED <<token, nLogin>>
    /\ UNCHANGED <<options, server, op, args, login, got, req, out, found,
                   result, nHttp>>
\* The fetch of request resolves for caller p (line 149); the body is still
\* to be read.
RequestResponse(p, answers) ==
    /\ pc[p] = "fetch"
    /\ op[p] \in RequestOps
    /\ \E r \in ServerResponses(options, req[p].bearer, sessions, answers) :
         res' = [res EXCEPT ![p] = r]
    /\ pc' = [pc EXCEPT ![p] = "json"]
    /\ UNCHANGED <<options, token, server, op, args, login, got, req, out,
                   found, result, nLogin, nHttp>>

\* request, lines 158-176: the body has been read; request throws or returns.
RequestSettles(p) ==
    /\ pc[p] = "json"
    /\ op[p] \in RequestOps
    /\ out' = [out EXCEPT ![p] = ResponseOutcome(res[p])]
    /\ pc' = [pc EXCEPT ![p] = "settled"]
    /\ UNCHANGED <<options, token, server, op, args, login, got, req, res,
                   found, result, nLogin, nHttp>>

\* As DisconnectResponse, but the cached token is cleared once the DELETE has
\* resolved.
DisconnectResponseClearsToken(p, answers) ==
    /\ pc[p] = "fetch"
    /\ op[p] = "disconnect"
    /\ \E r \in ServerResponses(options, req[p].bearer, sessions, answers) :
         /\ res' = [res EXCEPT ![p] = r]
         /\ sessions' = IF r.ok THEN sessions \ {req[p].bearer} ELSE sessions
    /\ token' = Null
    /\ pc' = [pc EXCEPT ![p] = "json"]
    /\ UNCHANGED <<options, issued, op, args, login, got, req, out, found,
                   result, nLogin, nHttp>>
\* The session DELETE of disconnect resolves for caller p (line 303); a
\* successful DELETE has ended the session on the server.
DisconnectResponse(p, answers) ==
    /\ pc[p] = "fetch"
    /\ op[p] = "disconnect"
    /\ \E r \in ServerResponses(options, req[p].bearer, sessions, answers) :
         /\ res' = [res EXCEPT ![p] = r]
         /\ sessions' = IF r.ok THEN sessions \ {req[p].bearer} ELSE sessions
    /\ pc' = [pc EXCEPT ![p] = "json"]
    /\ UNCHANGED <<options, token, issued, op, args, login, got, req, out,
                   found, result, nLogin, nHttp>>

\* disconnect, lines 311-332: the body has been read; disconnect's promise
\* settles.
DisconnectSettles(p) ==
    /\ pc[p] = "json"
    /\ op[p] = "disconnect"
    /\ out' = [out EXCEPT ![p] = DisconnectOutcome(res[p])]
    /\ result' = [result EXCEPT ![p] = DisconnectOutcome(res[p])]
    /\ pc' = [pc EXCEPT ![p] = "done"]
    /\ UNCHANGED <<options, token, server, op, args, login, got, req, res,
                   found, nLogin, nHttp>>

\* `return await request(...)` of list, create, get, update, delete and
\* metadata (lines 202-290): the operation resumes from its await and
\* settles to what request settled to.
AwaitSettles(p) ==
    /\ pc[p] = "settled"
    /\ op[p] \notin FindOps
    /\ result' = [result EXCEPT ![p] = out[p]]
    /\ pc' = [pc EXCEPT ![p] = "done"]
    /\ UNCHANGED <<options, token, server, op, args, login, got, req, res,
                   out, found, nLogin, nHttp>>

\* find, lines 357-361: the catch handler runs on what request settled to.
FindCatches(p) ==
    /\ pc[p] = "settled"
    /\ op[p] \in FindOps
    /\ found' = [found EXCEPT ![p] = FindCatch(IgnoreEmpty(args[p]), out[p])]
    /\ pc' = [pc EXCEPT ![p] = "caught"]
    /\ UNCHANGED <<options, token, server, op, args, login, got, req, res,
                   out, result, nLogin, nHttp>>

\* find, line 353: find resumes from `return await` and settles to what the
\* catch chain settled to; findOne and findFirst are still awaiting find.
FindSettles(p) ==
    /\ pc[p] = "caught"
    /\ IF op[p] = "find"
       THEN /\ result' = [result EXCEPT ![p] = found[p]]
            /\ pc' = [pc EXCEPT ![p] = "done"]
       ELSE /\ pc' = [pc EXCEPT ![p] = "found"]
            /\ UNCHANGED result
    /\ UNCHANGED <<options, token, server, op, args, login, got, req, res,
                   out, found, nLogin, nHttp>>

\* findOne, lines 375-378, and findFirst, lines 391-392: the code after
\* `await find(args)`, applied to what find settled to.
FindHelperSettles(p) ==
    /\ pc[p] = "found"
    /\ result' = [result EXCEPT ![p] =
                    IF op[p] = "findOne" THEN FindOneThen(found[p])
                    ELSE FindFirstThen(found[p])]
    /\ pc' = [pc EXCEPT ![p] = "done"]
    /\ UNCHANGED <<options, token, server, op, args, login, got, req, res,
                   out, found, nLogin, nHttp>>

\* The caller has its result; it may invoke another operation.
Return(p) ==
    /\ pc[p] = "done"
    /\ pc' = [pc EXCEPT ![p] = "idle"]
    /\ op' = [op EXCEPT ![p] = Undefined]
    /\ args' = [args EXCEPT ![p] = NoArgs]
    /\ login' = [login EXCEPT ![p] = NoLogin]
    /\ got' = [got EXCEPT ![p] = NoOutcome]
    /\ req' = [req EXCEPT ![p] = NoReq]
    /\ res' = [res EXCEPT ![p] = NoResponse]
    /\ out' = [out EXCEPT ![p] = NoOutcome]
    /\ found' = [found EXCEPT ![p] = NoOutcome]
    /\ result' = [result EXCEPT ![p] = NoOutcome]
    /\ nLogin' = [nLogin EXCEPT ![p] = 0]
    /\ nHttp' = [nHttp EXCEPT ![p] = 0]
    /\ UNCHANGED <<options, token, server>>

\* The server ends a session on its own (expiry, restart).
ServerExpire ==
    /\ \E t \in sessions : sessions' = sessions \ {t}
    /\ UNCHANGED <<options, token, issued, pc, op, args, login, got, req, res,
                   out, found, result, nLogin, nHttp>>

\* ------------------------------------------------------------------ specifications
\* Spec: two callers run operations concurrently on a client with a default
\* layout.  The operations are the ones that differ in how they touch the
\* token and the outcome: metadata (a plain request), find with
\* ignoreEmptyResult (without it find settles as a plain request does) and
\* disconnect.  The server answers with one response of each kind the client
\* tells apart: to a call, a payload, an unreadable body, a failure with code
\* 401, a failure with another code; to a login, a token, no token header, a
\* failure with code 401, a failure with an unreadable body.
CoreOps == {"metadata", "find"}
CoreArgs ==
    [o \in CoreOps |->
        {a \in ArgsFor(o) :
            /\ a.layout = Undefined
            /\ a.ignoreEmptyResult = IF o = "find" THEN "true" ELSE Undefined}]
CoreResponses ==
    {[ok |-> TRUE, body |-> Body(TRUE, TRUE, <<"0">>, TRUE, <<>>)],
     [ok |-> TRUE, body |-> Unparseable],
     [ok |-> FALSE, body |-> Body(TRUE, TRUE, <<NoRecordsCode>>, FALSE, <<>>)],
     [ok |-> FALSE, body |-> Body(TRUE, TRUE, <<"102">>, FALSE, <<>>)]}
CoreLoginResponses ==
    {r \in LoginResponses :
        \/ r.ok /\ r.header \in {"token", "absent"}
        \/ ~r.ok /\ r.body \in {Unparseable,
                                Body(TRUE, TRUE, <<NoRecordsCode>>, FALSE, <<>>)}}

Init == \E opts \in Configs(Layouts) : DataApi(opts)

Next ==
    \/ \E p \in Procs : CallOperation(p, CoreOps, CoreArgs)
    \/ \E p \in Procs : CallDisconnect(p)
    \/ \E p \in Procs : LoginResponse(p, CoreLoginResponses)
    \/ \E p \in Procs : LoginFails(p)
    \/ \E p \in Procs : IssueFetch(p)
    \/ \E p \in Procs : Rethrow(p)
    \/ \E p \in Procs : RequestResponse(p, CoreResponses)
    \/ \E p \in Procs : RequestSettles(p)
    \/ \E p \in Procs : DisconnectResponse(p, CoreResponses)
    \/ \E p \in Procs : DisconnectSettles(p)
    \/ \E p \in Procs : AwaitSettles(p)
    \/ \E p \in Procs : FindCatches(p)
    \/ \E p \in Procs : FindSettles(p)
    \/ \E p \in Procs : Return(p)
    \/ ServerExpire

Spec == Init /\ [][Next]_vars

\* SpecOps: one caller runs the public operations one after another, with
\* every argument combination, on every configuration, against every
\* response.
AllArgs == [o \in RequestOps |-> ArgsFor(o)]

InitOps == \E opts \in Configs(Layouts \cup {Undefined}) : DataApi(opts)

NextOps ==
    \/ CallOperation("p1", RequestOps, AllArgs)
    \/ CallDisconnect("p1")
    \/ LoginResponse("p1", LoginResponses)
    \/ LoginFails("p1")
    \/ IssueFetch("p1")
    \/ Rethrow("p1")
    \/ RequestResponse("p1", Responses)
    \/ RequestSettles("p1")
    \/ DisconnectResponse("p1", Responses)
    \/ DisconnectSettles("p1")
    \/ AwaitSettles("p1")
    \/ FindCatches("p1")
    \/ FindSettles("p1")
    \/ FindHelperSettles("p1")
    \/ Return("p1")
    \/ ServerExpire

SpecOps == InitOps /\ [][NextOps]_vars

\* ------------------------------------------------------------------ claims
\* Caller p starts operation o in this step.
Starts(p, o) == pc[p] = "idle" /\ pc'[p] # "idle" /\ op'[p] = o

\* The values the token cell can hold in the current state.
Cells == {Null, Empty} \cup {TokenNames[i] : i \in 1..issued}

\* C1: under Credentials mode getToken with refresh=false, entered while a
\* non-empty token is cached, issues no login call and returns the cached
\* token, in the step of the call; getToken with refresh=true empties the
\* cell and issues a login call whatever was cached, as a call entered on an
\* empty cell does; and a getToken call that issues a login call issues
\* exactly one, never a second.
C1_CacheHitAndForcedRefresh ==
    /\ [][\A p \in Procs :
            (/\ pc[p] = "idle" /\ pc'[p] # "idle"
             /\ ~IsApiKey(options) /\ ~Falsy(token)) =>
               /\ nLogin'[p] = 0
               /\ pc'[p] = "token"
               /\ got'[p] = Value("token", <<>>, token)
               /\ token' = token]_vars
    /\ [](~IsApiKey(options) =>
            \A t \in Cells :
               /\ GetTokenSync(options, t, TRUE)
                    = [login |-> TRUE, token |-> Null, ret |-> Null]
               /\ GetTokenSync(options, t, TRUE)
                    = GetTokenSync(options, Null, FALSE)
               /\ ~Falsy(t) => GetTokenSync(options, t, FALSE)
                                 = [login |-> FALSE, token |-> t, ret |-> t])
    /\ [](\A p \in Procs :
            /\ nLogin[p] <= 1
            /\ pc[p] \in {"login", "loginJson"} => nLogin[p] = 1)
\* one caller's getToken has logged in and cached a token; the other
\* caller's getToken then hit the cache
C1_Witness ==
    /\ ~IsApiKey(options)
    /\ ~Falsy(token)
    /\ \E p, q \in Procs :
         /\ nLogin[p] = 1 /\ nHttp[p] = 1 /\ req[p].bearer = token
         /\ pc[q] = "token" /\ nLogin[q] = 0
         /\ got[q] = Value("token", <<>>, token)

\* C2: under Credentials mode, once a data request has been rejected because
\* its token is no longer valid, the stale token is discarded: it is no
\* longer the cached token when the operation settles.
C2_StaleTokenDiscarded ==
    \A p \in Procs :
        (/\ ~IsApiKey(options)
         /\ op[p] \in RequestOps
         /\ pc[p] = "done"
         /\ out[p] = FileMakerError(InvalidTokenCode))
           => token # req[p].bearer

\* C3: the auth mode chosen at construction never changes, and under ApiKey
\* mode every call to disconnect fails with a local error in the step of the
\* call, with no login and no session DELETE issued and the token, the
\* server and every other caller left as they were.
C3_AuthModeFixedAndOttoDisconnectFails ==
    [][/\ options' = options
       /\ \A p \in Procs :
            (Starts(p, "disconnect") /\ IsApiKey(options)) =>
               /\ pc'[p] = "done"
               /\ result'[p] = Thrown("Error", "otto-disconnect", 0)
               /\ nLogin'[p] = 0 /\ nHttp'[p] = 0
               /\ req'[p] = NoReq
               /\ token' = token
               /\ server' = server
               /\ \A q \in Procs \ {p} :
                    /\ pc'[q] = pc[q] /\ req'[q] = req[q]
                    /\ result'[q] = result[q]]_vars
C3_Witness ==
    /\ IsApiKey(options)
    /\ \E p \in Procs :
         /\ op[p] = "disconnect" /\ pc[p] = "done"
         /\ result[p] = Thrown("Error", "otto-disconnect", 0)
         /\ nHttp[p] = 0

\* C4: under ApiKey mode getToken returns the configured key whatever the
\* refresh flag and whatever the cell holds, no caller ever issues or awaits
\* a login call, and the Bearer credential of every data call is the
\* configured key.
C4_ApiKeyIsTheToken ==
    IsApiKey(options) =>
        /\ \A refresh \in BOOLEAN : \A t \in Cells \cup {options.apiKey} :
              /\ ~GetTokenSync(options, t, refresh).login
              /\ GetTokenSync(options, t, refresh).ret = options.apiKey
        /\ \A p \in Procs :
              /\ nLogin[p] = 0 /\ pc[p] \notin {"login", "loginJson"}
              /\ pc[p] = "token"
                    => got[p] = Value("token", <<>>, options.apiKey)
              /\ nHttp[p] > 0 => req[p].bearer = options.apiKey
C4_Witness ==
    /\ IsApiKey(options)
    /\ \E p, q \in Procs :
         /\ pc[p] = "token" /\ got[p].tok = options.apiKey
         /\ op[q] \in RequestOps /\ nHttp[q] = 1
         /\ req[q].bearer = options.apiKey

\* C5: when the dispatcher has failed under find, find resolves to {data: []}
\* if the failure is a FileMakerError with code "401" and ignoreEmptyResult
\* is true, and fails with exactly the dispatcher's error in every other case.
C5_FindSuppressesOnly401 ==
    \A p \in Procs :
        (op[p] = "find" /\ pc[p] = "done" /\ IsError(out[p])) =>
            IF /\ out[p].kind = "FileMakerError"
               /\ out[p].code = "401"
               /\ args[p].ignoreEmptyResult = "true"
            THEN result[p] = Value("response", <<>>, Null)
            ELSE result[p] = out[p]
\* a data call answered 401 under ignoreEmptyResult, resolved to {data: []}
C5_Witness ==
    \E p \in Procs :
        /\ op[p] = "find" /\ pc[p] = "done" /\ nHttp[p] = 1
        /\ args[p].ignoreEmptyResult = "true"
        /\ out[p] = FileMakerError("401")
        /\ result[p] = Value("response", <<>>, Null)

\* C6: a non-2xx response to a dispatched data request whose body cannot be
\* parsed makes the dispatcher fail with a FileMakerError of code "500".
C6_UnparseableErrorIs500 ==
    \A p \in Procs :
        (/\ op[p] \in RequestOps /\ pc[p] = "done" /\ nHttp[p] > 0
         /\ ~res[p].ok /\ ~res[p].body.parsed)
           => out[p] = FileMakerError("500")
C6_Witness ==
    \E p \in Procs :
        /\ op[p] \in RequestOps /\ pc[p] = "done" /\ nHttp[p] = 1
        /\ ~res[p].ok /\ ~res[p].body.parsed
        /\ out[p] = FileMakerError("500")

\* C7: every non-2xx response to a dispatched data request makes the
\* dispatcher fail with a FileMakerError, whose code is the code of the first
\* entry of messages when there is one and "500" otherwise (messages empty or
\* absent, body empty or unparseable).
C7_EveryFailureIsNormalized ==
    \A p \in Procs :
        (op[p] \in RequestOps /\ pc[p] = "done" /\ nHttp[p] > 0 /\ ~res[p].ok)
          => /\ out[p].kind = "FileMakerError"
             /\ out[p].code =
                  IF /\ res[p].body.parsed /\ res[p].body.hasMessages
                     /\ res[p].body.messages # <<>>
                     /\ res[p].body.messages[1] # Undefined
                  THEN res[p].body.messages[1]
                  ELSE "500"

\* The find under caller p's findOne resolved (to the data of the response,
\* or to no records after a suppressed 401), and to how many records.
FindResolved(p) ==
    \/ out[p].kind = "value" /\ out[p].form = "response"
    \/ /\ out[p] = FileMakerError("401")
       /\ args[p].ignoreEmptyResult = "true"
FindCount(p) ==
    IF out[p].kind = "value" THEN Len(out[p].data) ELSE 0

\* C8: findOne, when the underlying find resolved to n records (the data of
\* the response, or none after a suppressed 401): for n = 1 it returns that
\* record unwrapped, for n = 0 and n > 1 it fails with a local error naming n.
C8_FindOneExactlyOne ==
    \A p \in Procs :
        (op[p] = "findOne" /\ pc[p] = "done" /\ FindResolved(p)) =>
            IF FindCount(p) = 1
            THEN result[p] = Value("one", <<out[p].data[1]>>, Null)
            ELSE result[p] = Thrown("Error", "count", FindCount(p))
\* the empty result of a suppressed 401 fails findOne with a count of 0
C8_Witness ==
    \E p \in Procs :
        /\ op[p] = "findOne" /\ pc[p] = "done"
        /\ out[p] = FileMakerError("401")
        /\ args[p].ignoreEmptyResult = "true"
        /\ result[p] = Thrown("Error", "count", 0)

\* C9: list renames every key that is present in its arguments (limit to
\* _limit, offset to _offset, sort to _sort as a sequence), whatever its
\* value, removes the original name, and leaves absent keys absent.
C9_ListRenamesPresentKeys ==
    \A p \in Procs :
        (op[p] = "list" /\ nHttp[p] > 0) =>
            /\ req[p].query.limit = AbsentNum
            /\ req[p].query._limit = args[p].limit
            /\ req[p].query.offset = AbsentNum
            /\ req[p].query._offset = args[p].offset
            /\ req[p].query.sort = NoSort
            /\ req[p].query._sort =
                 IF args[p].sort.tag = "string" THEN SortArray(args[p].sort.v)
                 ELSE args[p].sort

\* C10: no operation retries: an invocation of a public operation issues at
\* most one login call and at most one data or session call, whatever those
\* calls answer.
C10_NoRetry ==
    \A p \in Procs : nLogin[p] <= 1 /\ nHttp[p] <= 1
\* an invocation that logged in, sent its call, was turned down as holding an
\* invalid token, and settled with that failure
C10_Witness ==
    \E p \in Procs :
        /\ pc[p] = "done" /\ nLogin[p] = 1 /\ nHttp[p] = 1
        /\ out[p] = FileMakerError(InvalidTokenCode)
        /\ result[p] = out[p]

\* find's 401-suppression applies to caller p's operation.
Suppressed(p) ==
    /\ op[p] \in FindOps
    /\ args[p].ignoreEmptyResult = "true"
    /\ out[p] = FileMakerError("401")
\* The login call of caller p's public operation failed: the operation has
\* settled after a login call and without a data or session call.
LoginFailed(p) ==
    op[p] \in PublicOps /\ pc[p] = "done" /\ nLogin[p] = 1 /\ nHttp[p] = 0
\* The data or session call of caller p was answered with a failure status.
CallFailed(p) ==
    op[p] \in PublicOps /\ pc[p] = "done" /\ nHttp[p] = 1 /\ ~res[p].ok
\* The body of the answer to caller p's call could not be parsed.
ParseFailed(p) ==
    op[p] \in PublicOps /\ pc[p] = "done" /\ nHttp[p] = 1 /\ ~res[p].body.parsed

\* C11 (as stated): outside find's 401-suppression, whenever the login call,
\* the data call or the parsing of the data call's response body fails, the
\* operation fails and the caller receives that failure.
C11_NoFailureSwallowed ==
    \A p \in Procs :
        ((LoginFailed(p) \/ CallFailed(p) \/ ParseFailed(p)) /\ ~Suppressed(p))
          => (IsError(result[p]) /\ result[p] = out[p])
\* C11 (amended): outside find's 401-suppression, whenever the login call
\* fails or the data or session call is answered with a failure status, the
\* operation fails with the error the dispatcher raised.  (A body that cannot
\* be parsed is read as an empty object and is no failure of its own.)
C11_NoCallFailureSwallowed ==
    \A p \in Procs :
        ((LoginFailed(p) \/ CallFailed(p)) /\ ~Suppressed(p))
          => (IsError(result[p]) /\ result[p] = out[p])
\* a find under ignoreEmptyResult answered with a failure other than 401
\* fails with that failure
C11_Witness ==
    \E p \in Procs :
        /\ op[p] = "find" /\ args[p].ignoreEmptyResult = "true"
        /\ CallFailed(p)
        /\ out[p] = FileMakerError("102")
        /\ result[p] = out[p]

\* C12: under Credentials mode the steps in which the session DELETE of a
\* disconnect completes, successfully or not, leave the cached token as it
\* was; and an operation started while a non-empty token t is cached is
\* handed t without a login and issues its call with t as the Bearer
\* credential.
C12_DisconnectKeepsToken ==
    /\ [][\A p \in Procs :
            ~IsApiKey(options) =>
               /\ (/\ op[p] = "disconnect" /\ pc[p] \in {"fetch", "json"}
                   /\ pc'[p] # pc[p])
                     => token' = token
               /\ (/\ pc[p] = "idle" /\ pc'[p] # "idle"
                   /\ op'[p] \in RequestOps \cup {"disconnect"}
                   /\ ~Falsy(token))
                     => /\ pc'[p] = "token"
                        /\ nLogin'[p] = 0
                        /\ got'[p] = Value("token", <<>>, token)
                        /\ token' = token
               /\ (pc[p] = "token" /\ ~IsError(got[p]) /\ pc'[p] # "token")
                     => /\ pc'[p] = "fetch"
                        /\ nLogin'[p] = nLogin[p]
                        /\ nHttp'[p] = 1
                        /\ req'[p].bearer = got[p].tok]_vars
    /\ [](\A p \in Procs : pc[p] = "token" => nHttp[p] = 0)
\* a disconnect has settled with success, the token it ended is still
\* cached, and another caller's request carries it without having logged in
C12_Witness ==
    /\ ~IsApiKey(options)
    /\ \E p, q \in Procs :
         /\ op[p] = "disconnect" /\ pc[p] = "done" /\ res[p].ok
         /\ token = req[p].bearer /\ ~Falsy(token)
         /\ token \notin sessions
         /\ op[q] \in RequestOps /\ pc[q] = "fetch"
         /\ nLogin[q] = 0 /\ req[q].bearer = token

\* C13: under Credentials mode the cached token is cleared on teardown: once
\* the session DELETE of a disconnect has completed, the cached token is None
\* (so that the next operation logs in again).
C13_TokenClearedOnTeardown ==
    \A p \in Procs :
        (/\ ~IsApiKey(options)
         /\ op[p] = "disconnect"
         /\ pc[p] = "done"
         /\ nHttp[p] = 1)
           => token = Null

\* Login calls issued by the invocations in progress, and those invocations.
RECURSIVE LoginsOf(_)
LoginsOf(ps) ==
    IF ps = {} THEN 0
    ELSE LET p == CHOOSE q \in ps : TRUE
         IN  nLogin[p] + LoginsOf(ps \ {p})
Started == {p \in Procs : pc[p] # "idle"}

\* C14: logins are not coalesced: under Credentials mode an operation started
\* while no token is cached issues its own login call, whatever logins of
\* other callers are in flight; and the login calls issued never outnumber
\* the operations started.
C14_NoSingleFlight ==
    /\ [][\A p \in Procs :
            (/\ pc[p] = "idle" /\ pc'[p] # "idle"
             /\ ~IsApiKey(options) /\ Falsy(token))
               => (pc'[p] = "login" /\ nLogin'[p] = 1)]_vars
    /\ [](LoginsOf(Procs) <= Cardinality(Started))
\* every caller has its own login call in flight at the same time
C14_Witness ==
    /\ ~IsApiKey(options)
    /\ Falsy(token)
    /\ \A p \in Procs :
         pc[p] = "login" /\ op[p] \in RequestOps /\ nLogin[p] = 1
    /\ LoginsOf(Procs) = Cardinality(Procs)

\* C15: every operation resolves its layout before a request is built: the
\* request path carries the explicit per-call layout when one is given, the
\* configured default when none is given, and when neither is present the
\* operation fails as a caller error without issuing any HTTP call.
C15_LayoutResolved ==
    \A p \in Procs :
        (op[p] \in RequestOps /\ pc[p] # "idle") =>
            IF args[p].layout # Undefined
            THEN nHttp[p] = 1 => req[p].layout = args[p].layout
            ELSE IF options.layout # Undefined
            THEN nHttp[p] = 1 => req[p].layout = options.layout
            ELSE /\ pc[p] = "done"
                 /\ IsError(result[p])
                 /\ nLogin[p] = 0 /\ nHttp[p] = 0

\* C16: under Credentials mode a disconnect called while no token is cached
\* issues no session DELETE before its login has succeeded; when the login
\* succeeds the DELETE is issued, keyed by and authorized with the token that
\* login returned; when the login fails no DELETE is issued and disconnect
\* fails with the login error.
C16_DisconnectLogsInFirst ==
    /\ [][\A p \in Procs :
            /\ (op[p] = "disconnect" /\ pc[p] = "login" /\ pc'[p] # "login") =>
                  \/ /\ pc'[p] = "token"
                     /\ issued' = issued + 1
                     /\ TokenNames[issued'] \in sessions'
                     /\ got'[p] = Value("token", <<>>, TokenNames[issued'])
                  \/ /\ pc'[p] = "token"
                     /\ issued' = issued
                     /\ IsError(got'[p])
                  \/ /\ pc'[p] = "loginJson"
                     /\ issued' = issued
            /\ (op[p] = "disconnect" /\ pc[p] = "loginJson"
                  /\ pc'[p] # "loginJson") =>
                  /\ pc'[p] = "token"
                  /\ IsError(got'[p])
            /\ (op[p] = "disconnect" /\ pc[p] = "token" /\ pc'[p] # "token") =>
                  IF IsError(got[p])
                  THEN /\ pc'[p] = "done"
                       /\ nHttp'[p] = 0
                       /\ result'[p] = got[p]
                  ELSE /\ pc'[p] = "fetch"
                       /\ req'[p].method = "DELETE"
                       /\ req'[p].key = got[p].tok
                       /\ req'[p].bearer = got[p].tok
                       /\ nHttp'[p] = 1]_vars
    /\ [](\A p \in Procs :
            (op[p] = "disconnect" /\ pc[p] \in {"login", "loginJson", "token"})
               => (nHttp[p] = 0 /\ ~IsApiKey(options)))
\* a disconnect that had to log in has its DELETE in flight, for the session
\* its login opened
C16_Witness ==
    \E p \in Procs :
        /\ op[p] = "disconnect" /\ pc[p] = "fetch"
        /\ nLogin[p] = 1 /\ nHttp[p] = 1
        /\ req[p].key = req[p].bearer
        /\ req[p].bearer \in sessions
        /\ req[p].bearer = TokenNames[issued]

\* C17: under Credentials mode, when the login triggered by an operation
\* fails (non-success status, or success status without the token header),
\* the operation fails with the login error, no data or session call is
\* issued for it, the login is not retried, and no token is left cached.
C17_LoginFailureFailsOperation ==
    \A p \in Procs :
        (~IsApiKey(options) /\ LoginFailed(p)) =>
            /\ IsError(out[p])
            /\ IsError(result[p])
            /\ result[p] = out[p]
            /\ nHttp[p] = 0
            /\ nLogin[p] = 1
            /\ Falsy(token)

\* The tokens that successful login calls of this client have returned.
Returned == {TokenNames[i] : i \in 1..issued}

\* C18: in every interleaving of the client's operations, also when the cell
\* is emptied while other logins are in flight, getToken never returns None
\* or an empty token, whatever the refresh flag; and under Credentials mode
\* the token getToken returns, and so the Bearer credential of every data or
\* session DELETE call, is a token that a successful login call of this
\* client returned.
C18_BearerIsAReturnedToken ==
    /\ \A refresh \in BOOLEAN : \A t \in Cells \cup {token} :
          LET g == GetTokenSync(options, t, refresh)
          IN  ~g.login => ~Falsy(g.ret)
    /\ \A r \in LoginResponses :
          LET g == GetTokenResume(r, TokenNames[issued + 1])
          IN  ~IsError(g.out) => (r.header = "token" /\ ~Falsy(g.out.tok))
    /\ \A p \in Procs :
          /\ (pc[p] = "token" /\ ~IsError(got[p])) => ~Falsy(got[p].tok)
          /\ (~IsApiKey(options) /\ pc[p] = "token" /\ ~IsError(got[p]))
                => got[p].tok \in Returned
          /\ (~IsApiKey(options) /\ nHttp[p] > 0)
                => (~Falsy(req[p].bearer) /\ req[p].bearer \in Returned)
\* a caller holds the token its login returned, its call not yet issued,
\* while the cell has been emptied and another caller's login is in flight
C18_Witness ==
    /\ ~IsApiKey(options)
    /\ token = Null
    /\ \E p, q \in Procs :
         /\ pc[p] = "token" /\ nLogin[p] = 1 /\ got[p].tok \in Returned
         /\ pc[q] = "login"

\* C19: a failing login never removes or replaces a cached token: when a
\* token is cached and the login of some caller then fails (non-success
\* status, or success status with the token header absent), the same token
\* is still cached after the failure.
C19_FailedLoginKeepsToken ==
    [][\A p \in Procs :
          (/\ ~IsApiKey(options)
           /\ pc[p] \in {"login", "loginJson"} /\ pc'[p] = "token"
           /\ IsError(got'[p])
           /\ ~Falsy(token))
             => token' = token]_vars

====
